---- MODULE Spec2Model ----
(***************************************************************************)
(* The xum1541 IEC protocol engine (src/xum1541/iec.c) on the Minimus      *)
(* board line accessors (src/xum1541/board-minimus.h).                     *)
(*                                                                         *)
(* The adapter is one thread of control; pc is its position in the code.   *)
(* The peripheral is open: every sample of the bus lets the peripheral     *)
(* drive any subset p of PeerLines, so a line reads asserted when the      *)
(* adapter drives it (IEC_DDR) or p holds it.                              *)
(***************************************************************************)
EXTENDS Integers, Sequences, FiniteSets, TLC

\* ---------------------------------------------------------------- bounds
\* Largest len handed to cbm_raw_write / cbm_raw_read.
MaxLen ==
    2
\* Bytes a talker offers in one cbm_raw_read before it stops toggling CLOCK.
MaxTalk ==
    3
\* Polls of iec_wait_timeout_2ms (count = 200 in the code, scaled down).
PollMax ==
    2
\* Polls of iec_wait_clk (count = 200 in the code, scaled down).
EoiPollMax ==
    2
\* Iterations of the 1 s CLOCK wait of cbm_raw_read (50000 in the code).
RdToMax ==
    2
\* Attempts of wait_for_free_bus (XUM1541_TIMEOUT * 10000 in the code).
BusFreeMax ==
    2

\* ------------------------------------------------------------- constants
Lines == {"DATA", "CLK", "ATN", "RESET", "SRQ"}
\* Lines a peripheral can pull.
PeerLines == {"DATA", "CLK"}
PeerDrive == SUBSET PeerLines
\* Byte values the host side feeds into a write.
ByteVals == {0, 165}
\* DATA levels (TRUE = asserted) a talker shows at the 8 CLOCK releases.
DataPatterns ==
    { <<TRUE, TRUE, TRUE, TRUE, TRUE, TRUE, TRUE, TRUE>>,
      <<FALSE, TRUE, FALSE, FALSE, TRUE, TRUE, FALSE, TRUE>> }

VARIABLES
    pc,        \* position of the adapter in the code
    hostDrv,   \* IEC_DDR: the lines the adapter drives (asserts)
    eoi,       \* the eoi latch
    cancel,    \* the host requested an abort: TimerWorker() returns false
    len, rv, atn, talk, data,   \* cbm_raw_write locals (len also cbm_raw_read);
               \* atn, talk: 1 when flags has XUM_WRITE_ATN, XUM_WRITE_TALK
    cnt,       \* count of iec_wait_timeout_2ms / iec_wait_clk
    polls,     \* calls of iec_poll made by the latest iec_wait_timeout_2ms
    waits,     \* iec_wait_timeout_2ms calls ended since the latest cli()
    i, sb,     \* send_byte: i and the shifting b
    count, to, ok, bit, b,      \* cbm_raw_read locals
    ret,       \* value returned by the call that just ended
    len0,      \* the len argument of the running call
    fetched,   \* bytes obtained from usbRecvByte in this call
    sent,      \* bytes handed to send_byte in this call
    acked,     \* bytes the peer acknowledged by asserting DATA
    bitsDriven,\* bit cells send_byte has clocked out in this call
    passed,    \* byte numbers for which wait_for_listener returned true
    eoiAt,     \* byte numbers for which the EOI delay sequence was performed
    wrFail,    \* why this cbm_raw_write failed ("none" while it has not)
    rdFail,    \* why this cbm_raw_read failed ("none" while it has not)
    irqOff,    \* interrupts are disabled (between cli() and sei())
    delivered, \* bytes handed to usbSendByte with success in this call
    rxbits,    \* DATA levels sampled for the byte being received
    rxStarted, \* byte receives begun in this call (line 400 reached)
    acksGiven, \* bytes this call acknowledged by asserting DATA (line 420)
    latched,   \* this call latched eoi
    eoiAtCall, \* eoi when the call began
    drvAtCall, \* hostDrv when the call began
    tries,     \* wait_for_free_bus: i
    free,      \* value returned by the last check_if_bus_free
    hw_mask, hw_state,  \* xu1541_wait locals
    spin,      \* flips at every turn of a wait loop that has no timeout
    clkSeen,   \* the TALK wait ended on a sample with the peer holding CLOCK
    eoiSeen,   \* what the EOI waits of this write saw: "ack", "rel"
    cbfSeen,   \* check_if_bus_free: <<ATN driven, DATA asserted>> per sample
    attempts,  \* check_if_bus_free calls made by this wait_for_free_bus
    rtByte,    \* round trip: the byte handed to send_byte
    rtTx,      \* round trip: send_byte's shifting b
    rtDrv,     \* round trip: the lines the sender drives
    rtRx,      \* round trip: the receiver's b
    rtBit,     \* round trip: the receiver's bit
    rtPc,      \* round trip: whose turn it is
    sPc,       \* burst backend (srq.c): position of the caller and of upload
    ndebug,    \* the build defines NDEBUG: assert() expands to nothing
    imgLen,    \* sizeof(srq1571_drive_prog)
    idRet,     \* upload: what cbm_identify returned
    driveType, \* upload: the identified model
    progLen,   \* upload: srq_drive_prog_length
    bytesWritten, \* upload: what cbm_upload returned, as unsigned int
    upRet,     \* value returned by the upload that just ended
    initRet,   \* value returned by the init that just ended
    uploads,   \* lengths handed to cbm_upload by the running upload
    lastUp,    \* value returned by the session's latest upload (-1: none)
    handshaked,\* the build defines USE_HANDSHAKED_READ_BLOCK
    blkOff,    \* readblock / writeblock: the length argument
    blkLen,    \* readblock / writeblock: length as the loop advances it
    pIdx,      \* readblock / writeblock: how far p has advanced
    written,   \* indices into p of the bytes given to cbm_srq_burst_write
    readIdx,   \* indices into p filled by read1byte
    rbReq      \* Length given to cbm_srq_burst_read_track, as two 16-bit
               \* halves << high, low >> of the unsigned int

vars == << pc, hostDrv, eoi, cancel, len, rv, atn, talk, data, cnt, polls,
           waits, i, sb,
           count, to, ok, bit, b, ret, len0, fetched, sent, acked,
           bitsDriven, passed, eoiAt, wrFail, rdFail, irqOff, delivered, rxbits,
           rxStarted,
           acksGiven, latched, eoiAtCall, drvAtCall, tries, free,
           hw_mask, hw_state, spin, clkSeen, eoiSeen, cbfSeen, attempts,
           rtByte, rtTx, rtDrv, rtRx, rtBit, rtPc,
           sPc, ndebug, imgLen, idRet, driveType, progLen, bytesWritten,
           upRet, initRet, uploads, lastUp,
           handshaked, blkOff, blkLen, pIdx, written, readIdx, rbReq >>

wrLocals == << len, rv, atn, talk, data >>
sbLocals == << i, sb >>
rdLocals == << count, to, ok, bit, b >>
wrGhost  == << fetched, sent, acked, bitsDriven, passed, eoiAt, wrFail >>
rdGhost  == << delivered, rxbits, rxStarted, acksGiven, latched, rdFail >>
callGhost == << eoiAtCall, drvAtCall >>
rstLocals == << tries, free >>
xwLocals == << hw_mask, hw_state >>
wrSeen == << clkSeen, eoiSeen >>
rstGhost == << cbfSeen, attempts >>
rtVars == << rtByte, rtTx, rtDrv, rtRx, rtBit, rtPc >>
upVars == << ndebug, imgLen, idRet, driveType, progLen, bytesWritten,
             upRet, initRet, uploads, lastUp >>
blkVars == << handshaked, blkOff, blkLen, pIdx, written, readIdx, rbReq >>
srqVars == << sPc, upVars, blkVars >>

\* ------------------------------------------------------- line accessors
iec_set(drv, line) == drv \cup line
iec_release(drv, line) == drv \ line
iec_set_release(drv, s, r) == iec_release(iec_set(drv, s), r)
\* 1 (TRUE) when the pin reads low, i.e. the line is asserted by anyone.
iec_get(drv, p, line) == line \in (drv \cup p)
\* The pins that read high (released lines).
iec_poll(drv, p) == Lines \ (drv \cup p)

\* pollAbort(): false means cancel.
TimerWorker == ~cancel
\* Status of usbRecvByte / usbSendByte: non-zero is an abort request.
UsbStatus == {0, 1}

\* ------------------------------------------------- iec_wait_timeout_2ms
\* The loop test (iec_poll() & mask) == state.
WaitCond(drv, p, mask, state) == (iec_poll(drv, p) \cap mask) = state
\* The value returned: (iec_poll() & mask) != state.
WaitResult(drv, p, mask, state) == (iec_poll(drv, p) \cap mask) # state
\* A wait whose count never runs out.
CountLeft_Always(c) == TRUE

\* Line 156: count-- != 0.
CountLeft(c) == c # 0

\* One evaluation of while (cond && count-- != 0) DELAY_US(10), with the
\* peripheral driving p.
WaitTurn(here, fin, mask, state, p) ==
    /\ pc = here
    /\ IF WaitCond(hostDrv, p, mask, state) /\ CountLeft(cnt)
       THEN /\ cnt' = cnt - 1
            /\ polls' = polls + 1
            /\ pc' = here
       ELSE \* the loop is left; the return statement polls once more
            /\ cnt' = 0
            /\ polls' = polls + 2
            /\ pc' = fin
WaitLoop(here, fin, mask, state) ==
    \E p \in PeerDrive : WaitTurn(here, fin, mask, state, p)

\* ---------------------------------------------------------------- Init
\* cbm_init has released every line; eoi is a zero-initialised global.
EngineInit ==
    /\ pc = "idle"
    /\ hostDrv = {}
    /\ eoi = 0
    /\ cancel = FALSE
    /\ len = 0 /\ rv = 0 /\ atn = 0 /\ talk = 0 /\ data = 0
    /\ cnt = 0 /\ polls = 0 /\ waits = 0
    /\ i = 0 /\ sb = 0
    /\ count = 0 /\ to = 0 /\ ok = 0 /\ bit = 0 /\ b = 0
    /\ ret = 0
    /\ len0 = 0
    /\ fetched = <<>> /\ sent = <<>> /\ acked = <<>>
    /\ bitsDriven = 0
    /\ passed = {} /\ eoiAt = {}
    /\ wrFail = "none" /\ rdFail = "none"
    /\ irqOff = FALSE
    /\ delivered = <<>> /\ rxbits = <<>>
    /\ rxStarted = 0 /\ acksGiven = 0
    /\ latched = FALSE
    /\ eoiAtCall = 0 /\ drvAtCall = {}
    /\ tries = 0 /\ free = 0
    /\ hw_mask = {} /\ hw_state = {}
    /\ spin = 0
    /\ clkSeen = FALSE /\ eoiSeen = {}
    /\ cbfSeen = <<>> /\ attempts = 0

\* No round trip is running.
RtIdle ==
    /\ rtByte = 0 /\ rtTx = 0 /\ rtDrv = {} /\ rtRx = 0 /\ rtBit = 0
    /\ rtPc = "off"

\* No burst session is running.
SrqOff ==
    /\ sPc = "off" /\ ndebug = FALSE /\ imgLen = 0
    /\ idRet = 0 /\ driveType = "unknown" /\ progLen = 0
    /\ bytesWritten = 0 /\ upRet = 0 /\ initRet = 0
    /\ uploads = <<>> /\ lastUp = -1
    /\ handshaked = FALSE /\ blkOff = 0 /\ blkLen = 0 /\ pIdx = 0
    /\ written = <<>> /\ readIdx = <<>> /\ rbReq = <<0, 0>>

Init == EngineInit /\ RtIdle /\ SrqOff

\* What every action of cbm_raw_write leaves alone.
WrFrameB == UNCHANGED << cancel, rdLocals, rdGhost, irqOff, waits, callGhost,
                         rstLocals, xwLocals, rstGhost, rtVars, srqVars >>
WrFrameS == WrFrameB /\ UNCHANGED wrSeen
WrFrame == WrFrameS /\ UNCHANGED spin

\* ------------------------------------------------------- cbm_raw_write
\* A write that leaves the latch as it found it.
EoiAtWrite_Kept == eoi

\* Line 257: eoi = 0.
EoiAtWrite ==
    0

\* Lines 254-263: locals, eoi = 0, usbInitIo, release DATA, assert CLOCK
\* (and ATN when requested).
cbm_raw_write(l, a, t) ==
    /\ pc = "idle"
    /\ rv' = l /\ len' = l /\ len0' = l
    /\ atn' = a /\ talk' = t
    /\ eoi' = EoiAtWrite
    /\ hostDrv' = iec_set(iec_release(hostDrv, {"DATA"}),
                          {"CLK"} \cup (IF a # 0 THEN {"ATN"} ELSE {}))
    /\ cnt' = PollMax /\ polls' = 0
    /\ pc' = "w_probe"
    /\ fetched' = <<>> /\ sent' = <<>> /\ acked' = <<>>
    /\ bitsDriven' = 0 /\ passed' = {} /\ eoiAt' = {}
    /\ wrFail' = "none"
    /\ ret' = 0
    /\ eoiAtCall' = eoi /\ drvAtCall' = hostDrv
    /\ clkSeen' = FALSE /\ eoiSeen' = {}
    /\ UNCHANGED << data, sbLocals, cancel, rdLocals, rdGhost, irqOff, waits,
                    rstLocals, xwLocals, spin, rstGhost, rtVars, srqVars >>

W_Call == \E l \in 0..MaxLen, a \in {0, 1}, t \in {0, 1} : cbm_raw_write(l, a, t)

\* Line 266: the probe's polling loop.
W_Probe ==
    /\ WaitLoop("w_probe", "w_probe_fin", {"DATA"}, {"DATA"})
    /\ UNCHANGED << hostDrv, eoi, wrLocals, sbLocals, ret, len0, wrGhost >>
    /\ WrFrame

\* A probe failure that forgets ATN.
ProbeFailLines_KeepAtn(drv) == iec_release(drv, {"CLK"})

\* What the failing probe leaves driven (line 268).
ProbeFailLines(drv) == iec_release(drv, {"CLK", "ATN"})

\* Lines 266-271: the probe's result; no device: release, usbIoDone, return 0.
W_ProbeFin ==
    /\ pc = "w_probe_fin"
    /\ \E p \in PeerDrive :
         IF ~WaitResult(hostDrv, p, {"DATA"}, {"DATA"})
         THEN /\ hostDrv' = ProbeFailLines(hostDrv)
              /\ ret' = 0
              /\ wrFail' = "nodev"
              /\ pc' = "w_ret"
         ELSE /\ pc' = "w_loop"
              /\ UNCHANGED << hostDrv, ret, wrFail >>
    /\ UNCHANGED << eoi, wrLocals, sbLocals, cnt, polls, len0, fetched, sent, acked,
                    bitsDriven, passed, eoiAt >>
    /\ WrFrame

\* The EOI test without its !atn.
EoiNeeded_AnyFlags(l, a) == l = 1

\* Line 290: the byte gets the EOI delay sequence.
EoiNeeded(l, a) == l = 1 /\ a = 0

\* The number (1..len0) of the byte the loop is working on.
ByteNo == len0 - len + 1

\* Lines 273-284, 312-318: loop test, DATA check, and wait_for_listener's
\* release of CLOCK (line 233).
W_Loop ==
    /\ pc = "w_loop"
    /\ IF len # 0 /\ rv # 0
       THEN \E p \in PeerDrive :
              IF iec_get(hostDrv, p, "DATA")
              THEN /\ hostDrv' = iec_release(hostDrv, {"CLK"})
                   /\ pc' = "w_w4l"
                   /\ UNCHANGED << rv, wrFail >>
              ELSE \* no device addressed by this command
                   /\ rv' = 0
                   /\ wrFail' = "absent"
                   /\ pc' = "w_loop"
                   /\ hostDrv' = hostDrv
       ELSE /\ pc' = "w_done"
            /\ UNCHANGED << hostDrv, rv, wrFail >>
    /\ UNCHANGED << eoi, len, atn, talk, data, sbLocals, cnt, polls, ret, len0,
                    fetched, sent, acked, bitsDriven, passed, eoiAt >>
    /\ WrFrame

\* A wait_for_listener that never looks at the abort predicate.
ListenerAbort_Never == FALSE

\* Line 238: wait_for_listener gives up on an abort.
ListenerAbort == ~TimerWorker

\* Lines 236-241 and 280-297: one turn of wait_for_listener's loop, and what
\* follows its return.
W_WaitListener ==
    /\ pc = "w_w4l"
    /\ \E p \in PeerDrive :
         IF iec_get(hostDrv, p, "DATA")
         THEN IF ListenerAbort
              THEN \* abort: wait_for_listener returns false
                   /\ rv' = 0
                   /\ wrFail' = "w4l"
                   /\ pc' = "w_done"
                   /\ UNCHANGED << cnt, polls, passed, eoiAt, spin >>
              ELSE /\ pc' = "w_w4l"
                   /\ spin' = 1 - spin
                   /\ UNCHANGED << rv, cnt, polls, passed, eoiAt, wrFail >>
         ELSE /\ passed' = passed \cup {ByteNo}
              /\ UNCHANGED << rv, spin, wrFail >>
              /\ IF EoiNeeded(len, atn)
                 THEN /\ eoiAt' = eoiAt \cup {ByteNo}
                      /\ cnt' = PollMax /\ polls' = 0
                      /\ pc' = "w_eoi1"
                 ELSE /\ pc' = "w_setclk"
                      /\ UNCHANGED << cnt, polls, eoiAt >>
    /\ UNCHANGED << hostDrv, eoi, len, atn, talk, data, sbLocals, ret, len0,
                    fetched, sent, acked, bitsDriven >>
    /\ WrFrameS

\* Line 295: wait for the listener to assert DATA (result unused).
W_Eoi1 ==
    /\ \E p \in PeerDrive :
         /\ WaitTurn("w_eoi1", "w_eoi1_fin", {"DATA"}, {"DATA"}, p)
         /\ eoiSeen' = IF "DATA" \in p THEN eoiSeen \cup {"ack"} ELSE eoiSeen
    /\ UNCHANGED << hostDrv, eoi, wrLocals, sbLocals, ret, len0, wrGhost,
                    spin, clkSeen >>
    /\ WrFrameB

W_Eoi1Fin ==
    /\ pc = "w_eoi1_fin"
    /\ cnt' = PollMax /\ polls' = 0
    /\ pc' = "w_eoi2"
    /\ UNCHANGED << hostDrv, eoi, wrLocals, sbLocals, ret, len0, wrGhost >>
    /\ WrFrame

\* Line 296: wait for the listener to release DATA (result unused).
W_Eoi2 ==
    /\ \E p \in PeerDrive :
         /\ WaitTurn("w_eoi2", "w_setclk", {"DATA"}, {}, p)
         /\ eoiSeen' = IF "DATA" \notin (hostDrv \cup p)
                       THEN eoiSeen \cup {"rel"} ELSE eoiSeen
    /\ UNCHANGED << hostDrv, eoi, wrLocals, sbLocals, ret, len0, wrGhost,
                    spin, clkSeen >>
    /\ WrFrameB

\* Lines 298-305: assert CLOCK, fetch the byte, enter send_byte.
W_SetClk ==
    /\ pc = "w_setclk"
    /\ hostDrv' = iec_set(hostDrv, {"CLK"})
    /\ \E st \in UsbStatus :
         IF st # 0
         THEN /\ rv' = 0
              /\ wrFail' = "usb"
              /\ pc' = "w_done"
              /\ UNCHANGED << data, fetched, sent, i, sb >>
         ELSE \E d \in ByteVals :
                /\ data' = d
                /\ fetched' = Append(fetched, d)
                /\ sent' = Append(sent, d)
                /\ sb' = d /\ i' = 0
                /\ UNCHANGED << rv, wrFail >>
                /\ pc' = "sb_bit"
    /\ UNCHANGED << eoi, len, atn, talk, cnt, polls, ret, len0, acked, bitsDriven,
                    passed, eoiAt >>
    /\ WrFrame

\* ------------------------------------------------------------ send_byte
\* Line 198: the bit on the wire: DATA is asserted for a 0 bit.
SendBitLines(drv, byte) ==
    IF byte % 2 = 0 THEN iec_set(drv, {"DATA"}) ELSE drv
\* Line 206: b >>= 1.
ShiftOut(byte) == byte \div 2

\* Lines 195-203: set the bit on DATA, release CLOCK.
SB_Bit ==
    /\ pc = "sb_bit"
    /\ hostDrv' = iec_release(SendBitLines(hostDrv, sb), {"CLK"})
    /\ bitsDriven' = bitsDriven + 1
    /\ pc' = "sb_hold"
    /\ UNCHANGED << eoi, wrLocals, sbLocals, cnt, polls, ret, len0, fetched, sent,
                    acked, passed, eoiAt, wrFail >>
    /\ WrFrame

\* Lines 205-207 and 193: assert CLOCK, release DATA, shift, next bit.
SB_Hold ==
    /\ pc = "sb_hold"
    /\ hostDrv' = iec_set_release(hostDrv, {"CLK"}, {"DATA"})
    /\ sb' = ShiftOut(sb)
    /\ i' = i + 1
    /\ IF i + 1 < 8
       THEN pc' = "sb_bit" /\ cnt' = cnt /\ polls' = polls
       ELSE pc' = "sb_ack" /\ cnt' = PollMax /\ polls' = 0
    /\ UNCHANGED << eoi, wrLocals, ret, len0, wrGhost >>
    /\ WrFrame

\* Line 213: the acknowledgment window's polling loop.
SB_Ack ==
    /\ WaitLoop("sb_ack", "sb_ack_fin", {"DATA"}, {"DATA"})
    /\ UNCHANGED << hostDrv, eoi, wrLocals, sbLocals, ret, len0, wrGhost >>
    /\ WrFrame

\* A send_byte that reports success without the acknowledgment.
AckSeen_Always(drv, p) == TRUE

\* Lines 213-218: the value send_byte returns.
AckSeen(drv, p) == WaitResult(drv, p, {"DATA"}, {"DATA"})

\* Lines 213-218 and 305-311: send_byte's result and what the loop does
\* with it.
SB_AckFin ==
    /\ pc = "sb_ack_fin"
    /\ \E p \in PeerDrive :
         IF AckSeen(hostDrv, p)
         THEN /\ len' = len - 1
              /\ acked' = IF "DATA" \in p THEN Append(acked, data) ELSE acked
              /\ UNCHANGED << rv, wrFail >>
         ELSE /\ rv' = 0
              /\ wrFail' = "nak"
              /\ UNCHANGED << len, acked >>
    /\ pc' = "w_loop"
    /\ UNCHANGED << hostDrv, eoi, atn, talk, data, sbLocals, cnt, polls, ret, len0,
                    fetched, sent, bitsDriven, passed, eoiAt >>
    /\ WrFrame

\* Lines 325-326: the TALK turnaround: take DATA, let go of CLOCK and ATN.
TalkLines(drv) == iec_release(iec_set(drv, {"DATA"}), {"CLK", "ATN"})
\* Line 340: what an error leaves driven.
WriteErrLines(drv) == iec_release(drv, {"CLK", "ATN"})

\* Lines 321-345 without the TALK wait.
W_Done ==
    /\ pc = "w_done"
    /\ IF rv # 0
       THEN IF talk # 0
            THEN /\ hostDrv' = TalkLines(hostDrv)
                 /\ pc' = "w_talk"
                 /\ ret' = ret
            ELSE /\ hostDrv' = iec_release(hostDrv, {"ATN"})
                 /\ ret' = rv
                 /\ pc' = "w_ret"
       ELSE /\ hostDrv' = WriteErrLines(hostDrv)
            /\ ret' = rv
            /\ pc' = "w_ret"
    /\ UNCHANGED << eoi, wrLocals, sbLocals, cnt, polls, len0, wrGhost >>
    /\ WrFrame

\* A turnaround that does not wait for the talker.
TalkerTookClk_NoWait(drv, p) == TRUE

\* Line 327: the turnaround wait is over when CLOCK reads asserted.
TalkerTookClk(drv, p) == iec_get(drv, p, "CLK")

\* Lines 327-332, 337, 344: one turn of the wait for the talker's CLOCK.
W_Talk ==
    /\ pc = "w_talk"
    /\ \E p \in PeerDrive :
         /\ clkSeen' = ("CLK" \in p)
         /\ IF ~TalkerTookClk(hostDrv, p)
            THEN IF ~TimerWorker
                 THEN /\ rv' = 0
                      /\ ret' = 0
                      /\ wrFail' = "talk"
                      /\ pc' = "w_ret"
                      /\ spin' = spin
                 ELSE /\ pc' = "w_talk"
                      /\ spin' = 1 - spin
                      /\ UNCHANGED << rv, ret, wrFail >>
            ELSE /\ ret' = rv
                 /\ pc' = "w_ret"
                 /\ UNCHANGED << rv, spin, wrFail >>
    /\ UNCHANGED << hostDrv, eoi, len, atn, talk, data, sbLocals, cnt, polls, len0,
                    fetched, sent, acked, bitsDriven, passed, eoiAt, eoiSeen >>
    /\ WrFrameB

\* -------------------------------------------------------- cbm_raw_read
\* What every action of cbm_raw_read leaves alone.
RdFrame == UNCHANGED << rv, atn, talk, data, sbLocals, wrGhost, cancel, len0,
                        len, callGhost, rstLocals, xwLocals, spin, wrSeen,
                        rstGhost, rtVars, srqVars >>

\* Lines 354-357: usbInitIo, count = 0, to = 0.
cbm_raw_read(l) ==
    /\ pc = "idle"
    /\ len' = l /\ len0' = l
    /\ count' = 0 /\ to' = 0
    /\ pc' = "r_clkwait"
    /\ delivered' = <<>> /\ rxbits' = <<>>
    /\ rxStarted' = 0 /\ acksGiven' = 0
    /\ latched' = FALSE
    /\ rdFail' = "none"
    /\ eoiAtCall' = eoi /\ drvAtCall' = hostDrv
    /\ ret' = 0
    /\ UNCHANGED << hostDrv, eoi, cancel, rv, atn, talk, data, cnt, polls, sbLocals,
                    ok, bit, b, wrGhost, irqOff, waits, rstLocals, xwLocals, spin,
                    wrSeen, rstGhost, rtVars, srqVars >>

R_Call == \E l \in 0..MaxLen : cbm_raw_read(l)

\* Line 362: the wait for CLOCK released gives up.
ClkWaitGivesUp(t) == t >= RdToMax \/ ~TimerWorker

\* A read that has lost the eoi check.
EoiEndsCall_Never(e) == FALSE

\* Line 373: a latched eoi ends the call.
EoiEndsCall(e) == e # 0

\* A CLOCK wait that reports the bytes received before it gave up.
ClkTimeoutResult_Partial(c) == c

\* Line 366: the value returned when the wait for CLOCK released gives up.
ClkTimeoutResult(c) == 0

\* Lines 361-379: one turn of the wait for CLOCK released; then the eoi
\* check and the release of DATA.
R_ClkWait ==
    /\ pc = "r_clkwait"
    /\ \E p \in PeerDrive :
         IF iec_get(hostDrv, p, "CLK")
         THEN IF ClkWaitGivesUp(to)
              THEN /\ ret' = ClkTimeoutResult(count)
                   /\ rdFail' = "clkwait"
                   /\ pc' = "r_ret"
                   /\ UNCHANGED << to, hostDrv, cnt, polls >>
              ELSE /\ to' = to + 1
                   /\ pc' = "r_clkwait"
                   /\ UNCHANGED << ret, hostDrv, cnt, polls, rdFail >>
         ELSE IF EoiEndsCall(eoi)
              THEN /\ ret' = 0
                   /\ pc' = "r_ret"
                   /\ UNCHANGED << to, hostDrv, cnt, polls, rdFail >>
              ELSE /\ hostDrv' = iec_release(hostDrv, {"DATA"})
                   /\ cnt' = EoiPollMax /\ polls' = 0
                   /\ pc' = "r_eoiwait"
                   /\ UNCHANGED << to, ret, rdFail >>
    /\ UNCHANGED << eoi, count, ok, bit, b, delivered, rxbits, rxStarted,
                    acksGiven, latched, irqOff, waits >>
    /\ RdFrame

\* Lines 166-169: one evaluation of iec_wait_clk's loop.
R_EoiWait ==
    /\ pc = "r_eoiwait"
    /\ \E p \in PeerDrive :
         IF ~iec_get(hostDrv, p, "CLK") /\ cnt # 0
         THEN /\ cnt' = cnt - 1
              /\ pc' = "r_eoiwait"
         ELSE /\ cnt' = 0
              /\ pc' = "r_eoichk"
    /\ polls' = polls
    /\ UNCHANGED << hostDrv, eoi, rdLocals, ret, rdGhost, irqOff, waits >>
    /\ RdFrame

\* Lines 385-387 and 397: is the talker signalling EOI?
R_EoiChk ==
    /\ pc = "r_eoichk"
    /\ \E p \in PeerDrive :
         IF ~iec_get(hostDrv, p, "CLK")
         THEN /\ eoi' = 1
              /\ latched' = TRUE
              /\ hostDrv' = iec_set(hostDrv, {"DATA"})
              /\ pc' = "r_eoiack"
              /\ UNCHANGED << cnt, polls, irqOff, waits >>
         ELSE /\ irqOff' = TRUE /\ waits' = 0
              /\ cnt' = PollMax /\ polls' = 0
              /\ pc' = "r_wclk"
              /\ UNCHANGED << eoi, latched, hostDrv >>
    /\ UNCHANGED << rdLocals, ret, delivered, rxbits, rxStarted, acksGiven,
                    rdFail >>
    /\ RdFrame

\* Lines 388-397: end of the EOI acknowledgment pulse, cli().
R_EoiAck ==
    /\ pc = "r_eoiack"
    /\ hostDrv' = iec_release(hostDrv, {"DATA"})
    /\ irqOff' = TRUE /\ waits' = 0
    /\ cnt' = PollMax /\ polls' = 0
    /\ pc' = "r_wclk"
    /\ UNCHANGED << eoi, rdLocals, ret, rdGhost >>
    /\ RdFrame

\* Line 400: wait for CLOCK asserted.
R_WClk ==
    /\ WaitLoop("r_wclk", "r_wclk_fin", {"CLK"}, {"CLK"})
    /\ UNCHANGED << hostDrv, eoi, rdLocals, ret, rdGhost, irqOff, waits >>
    /\ RdFrame

\* What the talker can drive when a byte begins: it has MaxTalk bytes.
TalkerDrive ==
    IF Len(delivered) >= MaxTalk
    THEN {p \in PeerDrive : "CLK" \notin p}
    ELSE PeerDrive

\* Lines 400 and 403: ok, bit = b = 0.
R_WClkFin ==
    /\ pc = "r_wclk_fin"
    /\ \E p \in TalkerDrive :
         ok' = IF WaitResult(hostDrv, p, {"CLK"}, {"CLK"}) THEN 1 ELSE 0
    /\ bit' = 0 /\ b' = 0
    /\ rxbits' = <<>>
    /\ rxStarted' = rxStarted + 1
    /\ pc' = "r_bit"
    /\ waits' = waits + 1
    /\ UNCHANGED << hostDrv, eoi, count, to, cnt, polls, ret, delivered,
                    acksGiven, latched, rdFail, irqOff >>
    /\ RdFrame

\* Line 403: the bit loop's test; line 416: sei().
R_Bit ==
    /\ pc = "r_bit"
    /\ IF bit < 8 /\ ok # 0
       THEN /\ cnt' = PollMax /\ polls' = 0
            /\ pc' = "r_wrel"
            /\ irqOff' = irqOff /\ waits' = waits
       ELSE /\ irqOff' = FALSE /\ waits' = waits
            /\ pc' = "r_post"
            /\ cnt' = cnt /\ polls' = polls
    /\ UNCHANGED << hostDrv, eoi, rdLocals, ret, rdGhost >>
    /\ RdFrame

\* Line 405: wait for CLOCK released.
R_WRel ==
    /\ WaitLoop("r_wrel", "r_wrel_fin", {"CLK"}, {})
    /\ UNCHANGED << hostDrv, eoi, rdLocals, ret, rdGhost, irqOff, waits >>
    /\ RdFrame

\* A receiver that shifts the other way.
RecvBit_MsbFirst(byte, dataAsserted) ==
    ((byte * 2) % 256) + (IF dataAsserted THEN 0 ELSE 1)

\* Lines 407-409: b >>= 1; a released DATA is a 1 bit, put in at the top.
RecvBit(byte, dataAsserted) ==
    (byte \div 2) + (IF dataAsserted THEN 0 ELSE 128)

\* The DATA levels seen so far are the start of one of the talker's bytes.
TalkerShows(bits) ==
    \E pat \in DataPatterns : \A k \in 1..Len(bits) : bits[k] = pat[k]

\* Lines 405-410: the wait's result, and the sample of DATA.
R_WRelFin ==
    /\ pc = "r_wrel_fin"
    /\ \E p \in PeerDrive :
         IF WaitResult(hostDrv, p, {"CLK"}, {})
         THEN \E q \in PeerDrive :
                LET d == iec_get(hostDrv, q, "DATA") IN
                /\ TalkerShows(Append(rxbits, d))
                /\ ok' = 1
                /\ b' = RecvBit(b, d)
                /\ rxbits' = Append(rxbits, d)
                /\ cnt' = PollMax /\ polls' = 0
                /\ pc' = "r_wset"
                /\ bit' = bit
         ELSE /\ ok' = 0
              /\ bit' = bit + 1
              /\ pc' = "r_bit"
              /\ UNCHANGED << b, rxbits, cnt, polls >>
    /\ UNCHANGED << hostDrv, eoi, count, to, ret, delivered, rxStarted,
                    acksGiven, latched, rdFail, irqOff >>
    /\ waits' = waits + 1
    /\ RdFrame

\* Line 412: wait for CLOCK asserted.
R_WSet ==
    /\ WaitLoop("r_wset", "r_wset_fin", {"CLK"}, {"CLK"})
    /\ UNCHANGED << hostDrv, eoi, rdLocals, ret, rdGhost, irqOff, waits >>
    /\ RdFrame

\* Lines 412-414: the wait's result; bit++.
R_WSetFin ==
    /\ pc = "r_wset_fin"
    /\ \E p \in PeerDrive :
         ok' = IF WaitResult(hostDrv, p, {"CLK"}, {"CLK"}) THEN 1 ELSE 0
    /\ bit' = bit + 1
    /\ pc' = "r_bit"
    /\ waits' = waits + 1
    /\ UNCHANGED << hostDrv, eoi, count, to, b, cnt, polls, ret, rdGhost,
                    irqOff >>
    /\ RdFrame

\* A loop test that does not stop at eoi.
ReadsOn_NoEoi(c, l, k, e) == c # l /\ k # 0

\* Line 430: the do-while goes round again.
ReadsOn(c, l, k, e) == c # l /\ k # 0 /\ e = 0

\* Lines 418-430 (and 357 on the way back): acknowledge, deliver, loop test.
R_Post ==
    /\ pc = "r_post"
    /\ IF ok # 0
       THEN /\ hostDrv' = iec_set(hostDrv, {"DATA"})
            /\ acksGiven' = acksGiven + 1
            /\ \E st \in UsbStatus :
                 IF st # 0
                 THEN /\ pc' = "r_end"
                      /\ rdFail' = "deliver"
                      /\ UNCHANGED << count, delivered, to >>
                 ELSE /\ delivered' = Append(delivered, b)
                      /\ rdFail' = rdFail
                      /\ count' = (count + 1) % 65536
                      /\ IF ReadsOn((count + 1) % 65536, len, ok, eoi)
                         THEN pc' = "r_clkwait" /\ to' = 0
                         ELSE pc' = "r_end" /\ to' = to
       ELSE /\ pc' = "r_end"
            /\ rdFail' = "bit"
            /\ UNCHANGED << hostDrv, acksGiven, count, delivered, to >>
    /\ UNCHANGED << eoi, ok, bit, b, cnt, polls, ret, rxbits, rxStarted, latched,
                    irqOff, waits >>
    /\ RdFrame

\* A read that reports the bytes it had before the failure.
ReadResult_Partial(c, k) == c

\* Lines 432-439: a failed receive zeroes the count; usbIoDone; return.
ReadResult(c, k) == IF k = 0 THEN 0 ELSE c

R_End ==
    /\ pc = "r_end"
    /\ count' = ReadResult(count, ok)
    /\ ret' = ReadResult(count, ok)
    /\ pc' = "r_ret"
    /\ UNCHANGED << hostDrv, eoi, to, ok, bit, b, cnt, polls, rdGhost, irqOff, waits >>
    /\ RdFrame

\* ------------------------------------------------------------ cbm_reset
\* What every action of cbm_reset and xu1541_wait leaves alone.
IoFrameS == UNCHANGED << eoi, cancel, wrLocals, sbLocals, rdLocals, cnt, polls, len0,
                         wrGhost, rdGhost, irqOff, waits, wrSeen, rtVars,
                         srqVars >>
IoFrame == IoFrameS /\ UNCHANGED spin

AllLines == {"ATN", "CLK", "DATA", "RESET"}

\* A reset that does not let go of the bus lines first.
ResetLines_KeepBus(drv) == iec_set(drv, {"RESET"})

\* Lines 129 and 143: what cbm_reset drives while it holds RESET.
ResetLines(drv) ==
    iec_set(iec_release(drv, {"DATA", "ATN", "CLK"}), {"RESET"})

\* Lines 129-143: release DATA, ATN and CLOCK, then assert RESET.
cbm_reset ==
    /\ pc = "idle"
    /\ hostDrv' = ResetLines(hostDrv)
    /\ pc' = "rst_hold"
    /\ ret' = 0
    /\ eoiAtCall' = eoi /\ drvAtCall' = hostDrv
    /\ UNCHANGED << rstLocals, xwLocals, rstGhost >>
    /\ IoFrame

\* Lines 144-147 and 113: the hold is over: release RESET, start the
\* bus-free wait.
RST_Hold ==
    /\ pc = "rst_hold"
    /\ hostDrv' = iec_release(hostDrv, {"RESET"})
    /\ tries' = BusFreeMax
    /\ pc' = "wfb_loop"
    /\ UNCHANGED << ret, free, xwLocals, callGhost, rstGhost >>
    /\ IoFrame

\* Lines 113 and 66: the retry loop's test; an attempt begins by releasing
\* every line.
WFB_Loop ==
    /\ pc = "wfb_loop"
    /\ IF tries # 0
       THEN /\ hostDrv' = iec_release(hostDrv, AllLines)
            /\ pc' = "cbf_1"
            /\ ret' = ret
            /\ cbfSeen' = <<>>
            /\ attempts' = attempts + 1
       ELSE \* "wait4free bus to"
            /\ pc' = "rst_ret"
            /\ ret' = 0
            /\ hostDrv' = hostDrv
            /\ UNCHANGED rstGhost
    /\ UNCHANGED << rstLocals, xwLocals, callGhost >>
    /\ IoFrame

\* Lines 67-71: DATA held: the drive is not ready.
CBF_1 ==
    /\ pc = "cbf_1"
    /\ \E p \in PeerDrive :
         /\ cbfSeen' = Append(cbfSeen, << "ATN" \in hostDrv, "DATA" \in p >>)
         /\ IF iec_get(hostDrv, p, "DATA")
            THEN free' = 0 /\ pc' = "wfb_chk"
            ELSE free' = free /\ pc' = "cbf_2"
    /\ UNCHANGED << hostDrv, ret, tries, xwLocals, callGhost, attempts >>
    /\ IoFrame

\* Lines 77-85: DATA stable for 50 us, then assert ATN.
CBF_2 ==
    /\ pc = "cbf_2"
    /\ \E p \in PeerDrive :
         /\ cbfSeen' = Append(cbfSeen, << "ATN" \in hostDrv, "DATA" \in p >>)
         /\ IF iec_get(hostDrv, p, "DATA")
            THEN free' = 0 /\ pc' = "wfb_chk" /\ hostDrv' = hostDrv
            ELSE /\ hostDrv' = iec_set(hostDrv, {"ATN"})
                 /\ free' = free
                 /\ pc' = "cbf_3"
    /\ UNCHANGED << ret, tries, xwLocals, callGhost, attempts >>
    /\ IoFrame

\* Lines 86-95: did a drive answer ATN?  ATN is released either way.
\* A probe that does not require the drive's answer.
NoDriveAnswered_Never(drv, p) == FALSE

\* Line 89: DATA still unset under ATN: no drive answered.
NoDriveAnswered(drv, p) == ~iec_get(drv, p, "DATA")

CBF_3 ==
    /\ pc = "cbf_3"
    /\ \E p \in PeerDrive :
         /\ cbfSeen' = Append(cbfSeen, << "ATN" \in hostDrv, "DATA" \in p >>)
         /\ IF NoDriveAnswered(hostDrv, p)
            THEN free' = 0 /\ pc' = "wfb_chk"
            ELSE free' = free /\ pc' = "cbf_4"
    /\ hostDrv' = iec_release(hostDrv, {"ATN"})
    /\ UNCHANGED << ret, tries, xwLocals, callGhost, attempts >>
    /\ IoFrame

\* Lines 96-104: did the drive release DATA after ATN went?
CBF_4 ==
    /\ pc = "cbf_4"
    /\ \E p \in PeerDrive :
         /\ cbfSeen' = Append(cbfSeen, << "ATN" \in hostDrv, "DATA" \in p >>)
         /\ free' = IF ~iec_get(hostDrv, p, "DATA") THEN 1 ELSE 0
    /\ pc' = "wfb_chk"
    /\ UNCHANGED << hostDrv, ret, tries, xwLocals, callGhost, attempts >>
    /\ IoFrame

\* Lines 114-121: the attempt's result, the abort check, i--.
\* A retry loop that never looks at the abort predicate.
BusWaitOver_NoAbort(f) == f # 0

\* Lines 114-120: the attempt reported free, or the host signalled an abort.
BusWaitOver(f) == f # 0 \/ ~TimerWorker

WFB_Check ==
    /\ pc = "wfb_chk"
    /\ IF BusWaitOver(free)
       THEN pc' = "rst_ret" /\ tries' = tries
       ELSE pc' = "wfb_loop" /\ tries' = tries - 1
    /\ UNCHANGED << hostDrv, ret, free, xwLocals, callGhost, rstGhost >>
    /\ IoFrame

\* ---------------------------------------------------------- xu1541_wait
IEC_DATA ==
    1
IEC_CLOCK ==
    2
IEC_ATN ==
    4
IEC_RESET ==
    8

iec2hw_table ==
    << {},
       {"DATA"},
       {"CLK"},
       {"DATA", "CLK"},
       {"ATN"},
       {"DATA", "ATN"},
       {"CLK", "ATN"},
       {"DATA", "CLK", "ATN"},
       {"RESET"},
       {"DATA", "RESET"},
       {"CLK", "RESET"},
       {"DATA", "CLK", "RESET"},
       {"ATN", "RESET"},
       {"DATA", "ATN", "RESET"},
       {"CLK", "ATN", "RESET"},
       {"DATA", "CLK", "ATN", "RESET"} >>

iec2hw(iec) == iec2hw_table[iec + 1]

\* Lines 449-450.
xu1541_wait(line, state) ==
    /\ pc = "idle"
    /\ hw_mask' = iec2hw(line)
    /\ hw_state' = IF state # 0 THEN iec2hw(line) ELSE {}
    /\ pc' = "x_wait"
    /\ ret' = 0
    /\ eoiAtCall' = eoi /\ drvAtCall' = hostDrv
    /\ UNCHANGED << hostDrv, rstLocals, rstGhost >>
    /\ IoFrame

X_Call ==
    \E line \in {IEC_DATA, IEC_CLOCK, IEC_ATN, IEC_RESET, IEC_DATA + IEC_CLOCK},
       state \in {0, 1} : xu1541_wait(line, state)

\* Lines 452-458: one turn of the wait.
X_Wait ==
    /\ pc = "x_wait"
    /\ \E p \in PeerDrive :
         IF (iec_poll(hostDrv, p) \cap hw_mask) = hw_state
         THEN IF ~TimerWorker
              THEN ret' = 0 /\ pc' = "x_ret" /\ spin' = spin
              ELSE ret' = ret /\ pc' = "x_wait" /\ spin' = 1 - spin
         ELSE ret' = 1 /\ pc' = "x_ret" /\ spin' = spin
    /\ UNCHANGED << hostDrv, rstLocals, xwLocals, callGhost, rstGhost >>
    /\ IoFrameS

\* -------------------------------------------------------- environment
\* The host asks for an abort while a call is running.
Abort ==
    /\ pc # "idle"
    /\ ~cancel
    /\ cancel' = TRUE
    /\ UNCHANGED << pc, hostDrv, eoi, wrLocals, sbLocals, rdLocals, cnt, polls, ret,
                    len0, wrGhost, rdGhost, irqOff, waits, callGhost, rstLocals,
                    xwLocals, spin, wrSeen, rstGhost, rtVars, srqVars >>

RetPcs == {"w_ret", "r_ret", "rst_ret", "x_ret"}

\* The call has returned; the caller goes on (locals die, the abort request
\* was consumed).
Return ==
    /\ pc \in RetPcs
    /\ pc' = "idle"
    /\ cancel' = FALSE
    /\ len' = 0 /\ rv' = 0 /\ atn' = 0 /\ talk' = 0 /\ data' = 0
    /\ cnt' = 0 /\ polls' = 0 /\ waits' = 0 /\ i' = 0 /\ sb' = 0
    /\ count' = 0 /\ to' = 0 /\ ok' = 0 /\ bit' = 0 /\ b' = 0
    /\ ret' = 0 /\ len0' = 0
    /\ fetched' = <<>> /\ sent' = <<>> /\ acked' = <<>>
    /\ bitsDriven' = 0 /\ passed' = {} /\ eoiAt' = {}
    /\ wrFail' = "none" /\ rdFail' = "none"
    /\ delivered' = <<>> /\ rxbits' = <<>>
    /\ rxStarted' = 0 /\ acksGiven' = 0
    /\ latched' = FALSE
    /\ eoiAtCall' = 0 /\ drvAtCall' = {}
    /\ tries' = 0 /\ free' = 0
    /\ hw_mask' = {} /\ hw_state' = {}
    /\ spin' = 0
    /\ clkSeen' = FALSE /\ eoiSeen' = {}
    /\ cbfSeen' = <<>> /\ attempts' = 0
    /\ UNCHANGED << hostDrv, eoi, irqOff, rtVars, srqVars >>

Next ==
    \/ W_Call \/ W_Probe \/ W_ProbeFin \/ W_Loop \/ W_WaitListener
    \/ W_Eoi1 \/ W_Eoi1Fin \/ W_Eoi2 \/ W_SetClk
    \/ SB_Bit \/ SB_Hold \/ SB_Ack \/ SB_AckFin
    \/ W_Done \/ W_Talk
    \/ R_Call \/ R_ClkWait \/ R_EoiWait \/ R_EoiChk \/ R_EoiAck
    \/ R_WClk \/ R_WClkFin \/ R_Bit \/ R_WRel \/ R_WRelFin
    \/ R_WSet \/ R_WSetFin \/ R_Post \/ R_End
    \/ cbm_reset \/ RST_Hold \/ WFB_Loop \/ CBF_1 \/ CBF_2 \/ CBF_3 \/ CBF_4
    \/ WFB_Check
    \/ X_Call \/ X_Wait
    \/ Abort \/ Return

Spec == Init /\ [][Next]_vars

\* ----------------------------------------------------------- fairness
\* The adapter's processor keeps executing: some step of the running call
\* (or its return) is taken as long as one can be.
Step ==
    \/ W_Probe \/ W_ProbeFin \/ W_Loop \/ W_WaitListener
    \/ W_Eoi1 \/ W_Eoi1Fin \/ W_Eoi2 \/ W_SetClk
    \/ SB_Bit \/ SB_Hold \/ SB_Ack \/ SB_AckFin
    \/ W_Done \/ W_Talk
    \/ R_ClkWait \/ R_EoiWait \/ R_EoiChk \/ R_EoiAck
    \/ R_WClk \/ R_WClkFin \/ R_Bit \/ R_WRel \/ R_WRelFin
    \/ R_WSet \/ R_WSetFin \/ R_Post \/ R_End
    \/ RST_Hold \/ WFB_Loop \/ CBF_1 \/ CBF_2 \/ CBF_3 \/ CBF_4 \/ WFB_Check
    \/ X_Wait
    \/ Return

LiveSpec == Init /\ [][Next]_vars /\ WF_vars(Step)

\* ---------------------------------------------------------- round trip
\* send_byte of one adapter drives the bus; the bit loop of cbm_raw_read of
\* another adapter samples it.  The receiver drives nothing in its bit loop.
RtInit ==
    /\ EngineInit
    /\ SrqOff
    /\ rtByte \in 0..255
    /\ rtTx = rtByte
    /\ rtDrv = {"CLK"}
    /\ rtRx = 0 /\ rtBit = 0
    /\ rtPc = "set"

RtFrame == UNCHANGED << pc, hostDrv, eoi, cancel, wrLocals, sbLocals, rdLocals,
                        cnt, polls, ret, len0, wrGhost, rdGhost, irqOff, waits, callGhost,
                        rstLocals, xwLocals, spin, wrSeen, rstGhost,
                        srqVars >>

\* send_byte, lines 195-203: set the bit on DATA, release CLOCK.
RT_SendBit ==
    /\ rtPc = "set"
    /\ rtDrv' = iec_release(SendBitLines(rtDrv, rtTx), {"CLK"})
    /\ rtPc' = "sample"
    /\ UNCHANGED << rtByte, rtTx, rtRx, rtBit >>
    /\ RtFrame

\* cbm_raw_read, lines 405-409: CLOCK is seen released, DATA is sampled.
RT_Sample ==
    /\ rtPc = "sample"
    /\ WaitResult({}, rtDrv \cap PeerLines, {"CLK"}, {})
    /\ rtRx' = RecvBit(rtRx, iec_get({}, rtDrv \cap PeerLines, "DATA"))
    /\ rtPc' = "hold"
    /\ UNCHANGED << rtByte, rtTx, rtDrv, rtBit >>
    /\ RtFrame

\* send_byte, lines 205-206: assert CLOCK, release DATA, shift.
RT_Hold ==
    /\ rtPc = "hold"
    /\ rtDrv' = iec_set_release(rtDrv, {"CLK"}, {"DATA"})
    /\ rtTx' = ShiftOut(rtTx)
    /\ rtPc' = "clk"
    /\ UNCHANGED << rtByte, rtRx, rtBit >>
    /\ RtFrame

\* cbm_raw_read, lines 403 and 412: CLOCK is seen asserted, bit++.
RT_Clk ==
    /\ rtPc = "clk"
    /\ WaitResult({}, rtDrv \cap PeerLines, {"CLK"}, {"CLK"})
    /\ rtBit' = rtBit + 1
    /\ rtPc' = IF rtBit + 1 < 8 THEN "set" ELSE "done"
    /\ UNCHANGED << rtByte, rtTx, rtDrv, rtRx >>
    /\ RtFrame

RtNext == RT_SendBit \/ RT_Sample \/ RT_Hold \/ RT_Clk

RtSpec == RtInit /\ [][RtNext]_vars

\* ------------------------------------------------- burst backend (srq.c)
\* The models cbm_identify can report (others stands for the rest of
\* enum cbm_device_type_e).
DriveTypes == {"cbm1541", "cbm1570", "cbm1571", "cbm1581", "unknown", "other"}
\* Sizes the drive program image can have in a build.
ImageLens == {1, 255, 256, 300}
\* What cbm_upload can report for an image of n bytes: nothing written, one
\* byte short, or all written.
UploadReports(n) ==
    {0, n} \cup (IF n > 0 THEN {n - 1} ELSE {})

\* Everything the burst backend leaves alone.
SrqFrame == UNCHANGED << pc, hostDrv, eoi, cancel, wrLocals, sbLocals,
                         rdLocals, cnt, polls, ret, len0, wrGhost, rdGhost, irqOff, waits,
                         callGhost, rstLocals, xwLocals, spin, wrSeen,
                         rstGhost, rtVars >>

\* What upload and init leave alone.
UpFrame == SrqFrame /\ UNCHANGED blkVars
\* What readblock and writeblock leave alone.
BlkFrame == SrqFrame /\ UNCHANGED upVars

\* A session of the burst backend in some build.
SrqInit ==
    /\ EngineInit /\ RtIdle
    /\ sPc = "idle"
    /\ ndebug \in BOOLEAN
    /\ imgLen \in ImageLens
    /\ idRet = 0 /\ driveType = "unknown" /\ progLen = 0
    /\ bytesWritten = 0 /\ upRet = 0 /\ initRet = 0
    /\ uploads = <<>> /\ lastUp = -1
    /\ handshaked \in BOOLEAN
    /\ blkOff = 0 /\ blkLen = 0 /\ pIdx = 0
    /\ written = <<>> /\ readIdx = <<>> /\ rbReq = <<0, 0>>

\* Lines 25-31: locals, cbm_identify; its failure ends the upload.
upload(id, dt) ==
    /\ sPc = "idle"
    /\ idRet' = id
    /\ driveType' = dt
    /\ progLen' = 0
    /\ bytesWritten' = 0
    /\ uploads' = <<>>
    /\ IF id # 0
       THEN upRet' = 1 /\ sPc' = "u_ret"
       ELSE upRet' = upRet /\ sPc' = "u_switch"
    /\ UNCHANGED << ndebug, imgLen, initRet, lastUp >>
    /\ UpFrame

U_Call == \E id \in {0, 1}, dt \in DriveTypes : upload(id, dt)

\* A switch that also takes the 1581.
SupportedTypes_With1581 == {"cbm1570", "cbm1571", "cbm1581"}

\* Lines 43-44: the models that get the drive program.
SupportedTypes == {"cbm1570", "cbm1571"}

\* Lines 33-56: the switch over the model.
U_Switch ==
    /\ sPc = "u_switch"
    /\ IF driveType \in SupportedTypes
       THEN /\ progLen' = imgLen
            /\ sPc' = "u_assert"
            /\ upRet' = upRet
       ELSE /\ upRet' = 1
            /\ sPc' = "u_ret"
            /\ progLen' = progLen
    /\ UNCHANGED << ndebug, imgLen, idRet, driveType, bytesWritten, initRet,
                    uploads, lastUp >>
    /\ UpFrame

\* Line 63: 0x100.
ImageLimit ==
    256

\* An assertion that lets every image through.
AssertHolds_Always(n) == TRUE

\* Lines 62-63: the asserted expression.
AssertHolds(n) == n < ImageLimit

\* Lines 62-63: assert() ends the process when the expression is false,
\* unless the build defines NDEBUG.
U_Assert ==
    /\ sPc = "u_assert"
    /\ sPc' = IF ndebug \/ AssertHolds(progLen) THEN "u_upload" ELSE "aborted"
    /\ UNCHANGED << ndebug, imgLen, idRet, driveType, progLen, bytesWritten,
                    upRet, initRet, uploads, lastUp >>
    /\ UpFrame

\* Line 65: cbm_upload.
U_Upload ==
    /\ sPc = "u_upload"
    /\ \E w \in UploadReports(progLen) : bytesWritten' = w
    /\ uploads' = Append(uploads, progLen)
    /\ sPc' = "u_check"
    /\ UNCHANGED << ndebug, imgLen, idRet, driveType, progLen, upRet,
                    initRet, lastUp >>
    /\ UpFrame

\* Lines 67-75: the byte count decides.
U_Check ==
    /\ sPc = "u_check"
    /\ upRet' = IF bytesWritten # progLen THEN 1 ELSE 0
    /\ sPc' = "u_ret"
    /\ UNCHANGED << ndebug, imgLen, idRet, driveType, progLen, bytesWritten,
                    initRet, uploads, lastUp >>
    /\ UpFrame

\* upload has returned to its caller.
U_Return ==
    /\ sPc = "u_ret"
    /\ lastUp' = upRet
    /\ sPc' = "idle"
    /\ UNCHANGED << ndebug, imgLen, idRet, driveType, progLen, bytesWritten,
                    upRet, initRet, uploads >>
    /\ UpFrame

\* An init that hands on what the upload returned.
InitResult_FromUpload == IF lastUp = 0 THEN 0 ELSE 1

\* Line 83: return 0.
InitResult ==
    0

\* Lines 79-84: arch_sleep(1); return 0.
init ==
    /\ sPc = "idle"
    /\ initRet' = InitResult
    /\ sPc' = "i_ret"
    /\ UNCHANGED << ndebug, imgLen, idRet, driveType, progLen, bytesWritten,
                    upRet, uploads, lastUp >>
    /\ UpFrame

\* init has returned to its caller.
I_Return ==
    /\ sPc = "i_ret"
    /\ sPc' = "idle"
    /\ UNCHANGED << ndebug, imgLen, idRet, driveType, progLen, bytesWritten,
                    upRet, initRet, uploads, lastUp >>
    /\ UpFrame

\* Starting offsets of a block operation.
BlockOffsets == {0, 1, 255, 256, 257, 300}

\* Lines 112, 121, 150: 0x100.
BlockSize ==
    256

\* Half of an unsigned int: 2^16.
Half ==
    65536

\* x - y in unsigned int (32 bits), as << high, low >> halves, for x and y
\* below 2^31.
UIntSub(x, y) ==
    IF x >= y
    THEN << (x - y) \div Half, (x - y) % Half >>
    ELSE << (Half - 1) - ((y - x - 1) \div Half),
            (Half - 1) - ((y - x - 1) % Half) >>

\* Lines 112 and 150: length < 0x100.
BeforeBoundary(n) == n < BlockSize

\* Lines 147-150: writeblock is entered.
writeblock(o) ==
    /\ sPc = "idle"
    /\ blkOff' = o /\ blkLen' = o /\ pIdx' = 0
    /\ written' = <<>>
    /\ sPc' = "wb_loop"
    /\ UNCHANGED << handshaked, readIdx, rbReq >>
    /\ BlkFrame

WB_Call == \E o \in BlockOffsets : writeblock(o)

\* Lines 150-157: one turn of the loop: cbm_srq_burst_write(fd, *p++).
WB_Loop ==
    /\ sPc = "wb_loop"
    /\ IF BeforeBoundary(blkLen)
       THEN /\ written' = Append(written, pIdx)
            /\ pIdx' = pIdx + 1
            /\ blkLen' = blkLen + 1
            /\ sPc' = "wb_loop"
       ELSE /\ sPc' = "wb_ret"
            /\ UNCHANGED << written, pIdx, blkLen >>
    /\ UNCHANGED << handshaked, blkOff, readIdx, rbReq >>
    /\ BlkFrame

\* Lines 108-122: readblock: the loop of read1byte is entered, or the
\* whole rest is asked of cbm_srq_burst_read_track.
readblock(o) ==
    /\ sPc = "idle"
    /\ blkOff' = o /\ blkLen' = o /\ pIdx' = 0
    /\ readIdx' = <<>>
    /\ IF handshaked
       THEN sPc' = "rb_loop" /\ rbReq' = <<0, 0>>
       ELSE sPc' = "rb_ret" /\ rbReq' = UIntSub(BlockSize, o)
    /\ UNCHANGED << handshaked, written >>
    /\ BlkFrame

RB_Call == \E o \in BlockOffsets : readblock(o)

\* Lines 112-119: one turn of the loop: read1byte(fd, p++).
RB_Loop ==
    /\ sPc = "rb_loop"
    /\ IF BeforeBoundary(blkLen)
       THEN /\ readIdx' = Append(readIdx, pIdx)
            /\ pIdx' = pIdx + 1
            /\ blkLen' = blkLen + 1
            /\ sPc' = "rb_loop"
       ELSE /\ sPc' = "rb_ret"
            /\ UNCHANGED << readIdx, pIdx, blkLen >>
    /\ UNCHANGED << handshaked, blkOff, written, rbReq >>
    /\ BlkFrame

\* readblock or writeblock has returned to its caller (its locals die).
B_Return ==
    /\ sPc \in {"wb_ret", "rb_ret"}
    /\ sPc' = "idle"
    /\ blkOff' = 0 /\ blkLen' = 0 /\ pIdx' = 0
    /\ written' = <<>> /\ readIdx' = <<>> /\ rbReq' = <<0, 0>>
    /\ UNCHANGED handshaked
    /\ BlkFrame

SrqNext ==
    \/ U_Call \/ U_Switch \/ U_Assert \/ U_Upload \/ U_Check \/ U_Return
    \/ init \/ I_Return
    \/ WB_Call \/ WB_Loop \/ RB_Call \/ RB_Loop \/ B_Return

SrqSpec == SrqInit /\ [][SrqNext]_vars

\* ------------------------------- burst byte read (board-minimus.h)
\* iec_srq_read uses i, data, and the two waits for the strobe; it drives
\* no line.  What its steps leave alone:
SrqRdFrame == UNCHANGED << hostDrv, eoi, len, rv, atn, talk, sb, rdLocals,
                           cnt, polls, len0, wrGhost, rdGhost, irqOff, waits,
                           callGhost, rstLocals, xwLocals, wrSeen, rstGhost,
                           rtVars, srqVars >>

\* What the drive can do to SRQ and DATA between two samples.
SrqPeerDrive == SUBSET {"SRQ", "DATA"}

\* Lines 169-171: data = 0; i = 8.
iec_srq_read ==
    /\ pc = "idle"
    /\ data' = 0
    /\ i' = 8
    /\ pc' = "q_pull"
    /\ UNCHANGED << cancel, ret, spin >>
    /\ SrqRdFrame

\* Lines 174-175: while (!iec_get(IO_SRQ)) ;  One sample of the strobe; the
\* loop body is empty.
SRQ_WaitPull ==
    /\ pc = "q_pull"
    /\ \E p \in SrqPeerDrive :
         IF iec_get(hostDrv, p, "SRQ")
           THEN pc' = "q_rel" /\ UNCHANGED spin
           ELSE pc' = pc /\ spin' = 1 - spin
    /\ UNCHANGED << cancel, ret, i, data >>
    /\ SrqRdFrame

\* Lines 179-180: while (iec_get(IO_SRQ)) ;  One sample of the strobe.
SRQ_WaitRel ==
    /\ pc = "q_rel"
    /\ \E p \in SrqPeerDrive :
         IF iec_get(hostDrv, p, "SRQ")
           THEN pc' = pc /\ spin' = 1 - spin
           ELSE pc' = "q_bit" /\ UNCHANGED spin
    /\ UNCHANGED << cancel, ret, i, data >>
    /\ SrqRdFrame

\* Lines 181-186: the delay, data = (data << 1) | (iec_get(IO_DATA) ? 0 : 1)
\* in a uint8_t, --i and the loop test; line 187 returns data.
SRQ_Bit ==
    /\ pc = "q_bit"
    /\ \E p \in SrqPeerDrive :
         data' = ((data * 2) % 256)
                   + (IF iec_get(hostDrv, p, "DATA") THEN 0 ELSE 1)
    /\ i' = i - 1
    /\ IF i' # 0
         THEN pc' = "q_pull" /\ UNCHANGED ret
         ELSE pc' = "q_ret" /\ ret' = data'
    /\ UNCHANGED << cancel, spin >>
    /\ SrqRdFrame

\* The byte went to the caller; the locals die, the abort request was
\* consumed.
SRQ_Return ==
    /\ pc = "q_ret"
    /\ pc' = "idle"
    /\ cancel' = FALSE
    /\ i' = 0 /\ data' = 0 /\ ret' = 0 /\ spin' = 0
    /\ SrqRdFrame

SrqRdNext ==
    \/ iec_srq_read \/ SRQ_WaitPull \/ SRQ_WaitRel \/ SRQ_Bit \/ SRQ_Return
    \/ Abort

\* The processor keeps executing the running iec_srq_read.
SrqRdStep == SRQ_WaitPull \/ SRQ_WaitRel \/ SRQ_Bit \/ SRQ_Return

SrqRdSpec == Init /\ [][SrqRdNext]_vars /\ WF_vars(SrqRdStep)

\* ================================================================ claims
BusLines == {"DATA", "CLK", "ATN"}
ReadPcs == {"r_clkwait", "r_eoiwait", "r_eoichk", "r_eoiack", "r_wclk",
            "r_wclk_fin", "r_bit", "r_wrel", "r_wrel_fin", "r_wset",
            "r_wset_fin", "r_post", "r_end", "r_ret"}

\* C1: whenever cbm_raw_write returns 0, the adapter drives none of DATA,
\* CLOCK and ATN at the moment it returns.
C1_WriteFailureReleasesLines ==
    (pc = "w_ret" /\ ret = 0) => hostDrv \cap BusLines = {}

\* C2: cbm_raw_write returns len or 0; it returns len >= 1 only if exactly
\* len bytes were fetched, each handed to send_byte in order and each
\* acknowledged by the peer asserting DATA.
C2_WriteAllOrNothing ==
    pc = "w_ret" =>
        /\ ret \in {0, len0}
        /\ (ret = len0 /\ len0 >= 1) =>
              /\ Len(fetched) = len0
              /\ sent = fetched
              /\ acked = fetched

C2_Witness ==
    pc = "w_ret" /\ len0 = 2 /\ ret = 2 /\ acked = << 165, 0 >>

\* C3 as claimed: a cbm_raw_read that latches eoi returns a count of 0.
C3_EoiReadReturnsZero ==
    (pc = "r_ret" /\ latched) => ret = 0

\* C3 amended: a cbm_raw_read that latches eoi still receives the byte the
\* talker sends with the EOI and starts no further byte; it returns the
\* number of bytes it delivered, that byte included, or 0 if a bit wait of
\* the byte timed out.
C3_EoiEndsRead ==
    latched =>
        /\ eoi = 1
        /\ pc \in ReadPcs \ {"r_clkwait", "r_eoiwait", "r_eoichk"}
        /\ pc = "r_ret" => ret = (IF ok = 0 THEN 0 ELSE Len(delivered))

C3_Witness ==
    pc = "r_ret" /\ latched /\ ret = 2 /\ Len(delivered) = 2

\* C4 as claimed: a cbm_raw_read that starts with eoi latched returns 0
\* without waiting on a line, changes no line and delivers no byte.
C4_LatchedReadDoesNotWait ==
    (pc \in ReadPcs /\ eoiAtCall = 1) =>
        /\ to = 0
        /\ hostDrv = drvAtCall
        /\ delivered = << >>
        /\ pc = "r_ret" => ret = 0

\* C4 amended: a cbm_raw_read that starts with eoi latched changes no line,
\* delivers no byte and returns 0; before that it waits for CLOCK to be
\* released, for at most the bounded (1 s) abort-checked wait.
C4_LatchedReadReturnsZero ==
    (pc \in ReadPcs /\ eoiAtCall = 1) =>
        /\ pc \in {"r_clkwait", "r_ret"}
        /\ to <= RdToMax
        /\ hostDrv = drvAtCall
        /\ delivered = << >>
        /\ pc = "r_ret" => ret = 0

C4_Witness ==
    pc = "r_ret" /\ eoiAtCall = 1 /\ to > 0 /\ rdFail = "none" /\ ret = 0

\* C5: the EOI delay sequence is performed for a byte iff it is the last
\* one remaining and ATN is unset: once, on byte n, in a successful non-ATN
\* write of n >= 1 bytes, and never with ATN set.
C5_EoiOnlyOnLastByte ==
    /\ eoiAt = {k \in passed : len0 - k + 1 = 1 /\ atn = 0}
    /\ (pc = "w_ret" /\ ret = len0 /\ len0 >= 1 /\ atn = 0) => eoiAt = {len0}
    /\ atn # 0 => eoiAt = {}

C5_Witness ==
    pc = "w_ret" /\ len0 = 2 /\ ret = 2 /\ atn = 0 /\ eoiAt = {2}
    /\ passed = {1, 2}

\* C6: when the probe sees no device the write returns 0 at once, with no
\* byte fetched, no data bit driven and CLOCK and ATN released; when DATA is
\* found released at the start of a later byte the write fails with 0
\* without fetching that byte.
C6_NoDeviceFailsWrite ==
    /\ wrFail = "nodev" =>
          /\ pc = "w_ret" /\ ret = 0
          /\ fetched = << >> /\ bitsDriven = 0
          /\ hostDrv \cap BusLines = {}
    /\ wrFail = "absent" =>
          /\ pc \in {"w_loop", "w_done", "w_ret"}
          /\ rv = 0
          /\ Len(fetched) = len0 - len
          /\ pc = "w_ret" => ret = 0

C6_Witness ==
    pc = "w_ret" /\ wrFail = "nodev" /\ atn = 1 /\ len0 = 2

\* C7: for every byte 0..255, the byte the bit loop of cbm_raw_read builds
\* from the bus driven by send_byte equals the byte that was sent.
C7_RoundTrip ==
    rtPc = "done" => rtRx = rtByte

C7_Witness ==
    rtPc = "done" /\ rtByte = 77 /\ rtRx = 77

\* C8: when a 2 ms CLOCK wait of a byte receive times out, cbm_raw_read
\* returns 0 whatever it had received, and the failed byte is neither
\* acknowledged on DATA nor delivered.
C8_BitTimeoutFailsRead ==
    rdFail = "bit" =>
        /\ pc \in {"r_end", "r_ret"}
        /\ "DATA" \notin hostDrv
        /\ acksGiven = rxStarted - 1
        /\ Len(delivered) = rxStarted - 1
        /\ pc = "r_ret" => ret = 0

C8_Witness ==
    pc = "r_ret" /\ rdFail = "bit" /\ rxStarted = 2 /\ Len(delivered) = 1
    /\ ret = 0

\* C9: whenever cbm_raw_read fails, the adapter drives none of DATA, CLOCK
\* and ATN when it returns, also when it was called with DATA held by the
\* adapter (stated for the calls made with at most DATA held: after a TALK
\* turnaround, after an acknowledged byte, or from idle).
C9_ReadFailureReleasesLines ==
    (pc = "r_ret" /\ rdFail # "none" /\ drvAtCall \subseteq {"DATA"}) =>
        hostDrv \cap BusLines = {}

\* C10: once the abort predicate reports cancel (and keeps doing so) the
\* running call returns, whatever the peripheral does; an abort in
\* wait_for_listener makes cbm_raw_write return 0 with no further byte
\* fetched or sent.
C10_AbortEndsEveryCall ==
    /\ cancel ~> (pc \in RetPcs)
    /\ [](wrFail = "w4l" =>
            /\ pc \in {"w_done", "w_ret"}
            /\ rv = 0
            /\ Len(fetched) = len0 - len
            /\ Len(sent) = len0 - len
            /\ pc = "w_ret" => ret = 0)

C10_Witness ==
    pc = "w_ret" /\ wrFail = "w4l" /\ cancel /\ len0 = 2 /\ Len(sent) = 1

\* C11: a cbm_raw_write with the TALK flag whose bytes were all sent and
\* acknowledged asserts DATA and releases CLOCK and ATN, and returns len only
\* on a sample that shows the peer asserting CLOCK; the wait is left
\* otherwise only by an abort, with 0 returned.  Without the TALK flag a
\* successful write returns len with ATN released and CLOCK still asserted.
C11_TalkTurnaround ==
    /\ pc = "w_talk" =>
          /\ talk # 0 /\ rv = len0 /\ len0 >= 1
          /\ Len(sent) = len0 /\ acked = sent
          /\ hostDrv \cap BusLines = {"DATA"}
    /\ (pc = "w_ret" /\ talk # 0 /\ ret # 0) =>
          /\ ret = len0
          /\ clkSeen
          /\ hostDrv \cap BusLines = {"DATA"}
    /\ (pc = "w_ret" /\ wrFail = "talk") =>
          /\ cancel /\ ret = 0 /\ ~clkSeen
    /\ (pc = "w_ret" /\ talk = 0 /\ ret # 0) =>
          /\ ret = len0
          /\ hostDrv \cap BusLines = {"CLK"}

C11_Witness ==
    pc = "w_ret" /\ talk # 0 /\ atn # 0 /\ ret = 2 /\ len0 = 2 /\ clkSeen
    /\ spin = 1

\* C12: check_if_bus_free reports free only after DATA was sampled released
\* at both checks before the probe, asserted with ATN driven, and released
\* after ATN was let go; it reports not free at the first check that fails,
\* each check being one sample.
C12_BusFreeNeedsAllChecks ==
    /\ pc = "wfb_chk" =>
          /\ free = 1 <=> cbfSeen = << <<FALSE, FALSE>>, <<FALSE, FALSE>>,
                                      <<TRUE, TRUE>>, <<FALSE, FALSE>> >>
          /\ free = 0 <=> cbfSeen \in
                { << <<FALSE, TRUE>> >>,
                  << <<FALSE, FALSE>>, <<FALSE, TRUE>> >>,
                  << <<FALSE, FALSE>>, <<FALSE, FALSE>>, <<TRUE, FALSE>> >>,
                  << <<FALSE, FALSE>>, <<FALSE, FALSE>>, <<TRUE, TRUE>>,
                     <<FALSE, TRUE>> >> }
          /\ free \in {0, 1}
    /\ pc = "cbf_1" => Len(cbfSeen) = 0
    /\ pc = "cbf_2" => Len(cbfSeen) = 1
    /\ pc = "cbf_3" => Len(cbfSeen) = 2
    /\ pc = "cbf_4" => Len(cbfSeen) = 3

C12_Witness ==
    /\ pc = "wfb_chk" /\ free = 1 /\ attempts = 2
    /\ cbfSeen = << <<FALSE, FALSE>>, <<FALSE, FALSE>>,
                    <<TRUE, TRUE>>, <<FALSE, FALSE>> >>

ResetPcs == {"rst_hold", "wfb_loop", "cbf_1", "cbf_2", "cbf_3", "cbf_4",
             "wfb_chk"}

\* C13: wait_for_free_bus always terminates: it makes at most BusFreeMax
\* (XUM1541_TIMEOUT * 10000) calls of check_if_bus_free, returns as soon as
\* one reports free, returns right after a failed attempt when the abort
\* predicate reports cancel, and returns after the last attempt otherwise.
C13_BusWaitTerminates ==
    /\ (pc \in ResetPcs) ~> (pc = "rst_ret")
    /\ [](attempts <= BusFreeMax)
    /\ [](pc = "rst_ret" =>
            \/ free = 1
            \/ cancel /\ attempts >= 1
            \/ attempts = BusFreeMax /\ tries = 0)
    /\ [][(pc = "wfb_chk" /\ (free # 0 \/ cancel)) => pc' # "wfb_loop"]_vars

C13_Witness ==
    pc = "rst_ret" /\ free = 0 /\ ~cancel /\ attempts = BusFreeMax

\* C14 as claimed: a cbm_raw_write or cbm_raw_read that fails by a timeout
\* after k bytes were transferred in that call returns k.
C14_PartialCountReturned ==
    /\ (pc = "w_ret" /\ wrFail = "nak") => ret = Len(acked)
    /\ (pc = "r_ret" /\ rdFail \in {"bit", "clkwait"} /\ ~cancel) =>
          ret = Len(delivered)

\* C14 amended: a cbm_raw_write or cbm_raw_read that fails by a timeout
\* returns 0, however many bytes were transferred in that call before; those
\* k bytes stay transferred (acknowledged by the listener, or delivered to
\* the byte channel) and are not reported.
C14_TimeoutReturnsZero ==
    /\ (pc = "w_ret" /\ wrFail = "nak") =>
          /\ ret = 0
          /\ Len(acked) = len0 - len
          /\ Len(sent) = Len(acked) + 1
    /\ (pc = "r_ret" /\ rdFail \in {"bit", "clkwait"}) =>
          /\ ret = 0
          /\ Len(delivered) = acksGiven
          /\ rdFail = "clkwait" => count = Len(delivered)

C14_Witness ==
    /\ pc = "r_ret" /\ rdFail = "clkwait" /\ ~cancel /\ to = RdToMax
    /\ Len(delivered) = 1 /\ len0 = 2 /\ ret = 0

\* C15: upload succeeds iff cbm_identify succeeded, the model is a 1570 or
\* a 1571, and cbm_upload reported exactly the image length; for a 1541, a
\* 1581, an unknown or any other model it fails without calling cbm_upload.
C15_UploadSucceedsIff ==
    sPc = "u_ret" =>
        /\ upRet \in {0, 1}
        /\ upRet = 0 <=>
              /\ idRet = 0
              /\ driveType \in {"cbm1570", "cbm1571"}
              /\ uploads = << imgLen >>
              /\ bytesWritten = imgLen
        /\ (idRet # 0 \/ driveType \notin {"cbm1570", "cbm1571"}) =>
              upRet = 1 /\ uploads = << >>

C15_Witness ==
    /\ sPc = "u_ret" /\ upRet = 0 /\ driveType = "cbm1570"
    /\ imgLen = 255 /\ bytesWritten = 255 /\ lastUp = 1

\* C16 as claimed: init returns success only after a successful upload; when
\* the session's upload failed, init fails.
C16_InitFailsAfterFailedUpload ==
    (sPc = "i_ret" /\ lastUp = 1) => initRet # 0

\* C16 amended: a failed upload is reported by upload itself, which returns
\* 1; init does not look at the upload and returns success whenever it is
\* called, also after a failed upload.
C16_InitAlwaysSucceeds ==
    /\ sPc = "i_ret" => initRet = 0
    /\ (sPc = "u_ret" /\ (idRet # 0 \/ driveType \notin SupportedTypes
                            \/ bytesWritten # progLen)) => upRet = 1
    /\ lastUp \in {-1, 0, 1}

C16_Witness ==
    sPc = "i_ret" /\ lastUp = 1 /\ initRet = 0 /\ uploads = << 255 >>
    /\ bytesWritten = 254

C18_EoiLatchPersists ==
    /\ [][(eoi = 1 /\ eoi' # 1) => (pc = "idle" /\ pc' = "w_probe")]_vars
    /\ [][(pc = "idle" /\ pc' = "w_probe") => eoi' = 0]_vars
    /\ []((pc \in ReadPcs /\ eoiAtCall = 1) =>
            /\ eoi = 1
            /\ delivered = << >>
            /\ pc = "r_ret" => ret = 0)
    /\ [](pc \in {"w_probe", "w_probe_fin", "w_loop", "w_w4l", "w_eoi1",
                   "w_eoi1_fin", "w_eoi2", "w_setclk", "sb_bit", "sb_hold",
                   "sb_ack", "sb_ack_fin", "w_done", "w_talk", "w_ret"}
            => eoi = 0)

C18_Witness ==
    pc = "r_ret" /\ eoiAtCall = 1 /\ eoi = 1 /\ ret = 0 /\ len0 = 2
    /\ to = 0 /\ ~cancel

\* C19: cbm_raw_read(len) never delivers more than len bytes to the byte
\* channel and never returns a count greater than len, for every len,
\* len = 0 included.
C19_ReadAtMostLen ==
    pc \in ReadPcs =>
        /\ Len(delivered) <= len0
        /\ pc = "r_ret" => ret <= len0

\* C20: in a cbm_raw_write without ATN the final byte is fetched and driven
\* only after the listener was seen asserting DATA as EOI acknowledgment and
\* then releasing it; without either the final byte is not sent.
C20_FinalByteAfterEoiAck ==
    (pc \notin {"idle"} \cup ReadPcs /\ atn = 0 /\ len0 >= 1
       /\ Len(fetched) = len0) =>
        eoiSeen = {"ack", "rel"}

\* Weight of a bit position.
Pow2(n) == IF n = 0 THEN 1 ELSE IF n = 1 THEN 2 ELSE IF n = 2 THEN 4
           ELSE IF n = 3 THEN 8 ELSE IF n = 4 THEN 16 ELSE IF n = 5 THEN 32
           ELSE IF n = 6 THEN 64 ELSE 128
\* The 1 bits of a byte: the samples (1..8) at which DATA was released.
OneBits(bits) == {k \in 1..Len(bits) : ~bits[k]}
RECURSIVE SumLsb(_), SumMsb(_)
\* The byte whose bit k-1 is the k-th sample; the byte whose bit 8-k is.
SumLsb(S) == IF S = {} THEN 0
             ELSE LET k == CHOOSE x \in S : TRUE
                  IN Pow2(k - 1) + SumLsb(S \ {k})
SumMsb(S) == IF S = {} THEN 0
             ELSE LET k == CHOOSE x \in S : TRUE
                  IN Pow2(8 - k) + SumMsb(S \ {k})

\* C21 as claimed: the bit sampled at the first CLOCK release is bit 7 of
\* the delivered byte and the bit sampled last is bit 0, a released DATA
\* being a 1.
C21_ReadMsbFirst ==
    (pc = "r_post" /\ ok # 0) =>
        Len(rxbits) = 8 /\ b = SumMsb(OneBits(rxbits))

\* C21 amended: the bit sampled at the first CLOCK release is bit 0 of the
\* delivered byte and the bit sampled last is bit 7 (LSB first), a released
\* DATA being a 1 and an asserted DATA a 0.
C21_ReadLsbFirst ==
    /\ (pc = "r_post" /\ ok # 0) =>
          Len(rxbits) = 8 /\ b = SumLsb(OneBits(rxbits))
    /\ \A k \in 1..Len(delivered) : delivered[k] \in {0, 77}

C21_Witness ==
    /\ pc = "r_post" /\ ok # 0 /\ b = 77
    /\ rxbits = <<FALSE, TRUE, FALSE, FALSE, TRUE, TRUE, FALSE, TRUE>>

\* The part of cbm_raw_read between cli() and sei().
IrqOffPcs == {"r_wclk", "r_wclk_fin", "r_bit", "r_wrel", "r_wrel_fin",
              "r_wset", "r_wset_fin"}

\* C22 as claimed: interrupts are disabled only around the receive of one
\* byte, the disabled region holds at most 17 waits, each of at most
\* PollMax + 1 polls of the lines (201 in the code), and it always ends.
C22_IrqRegion201Polls ==
    /\ [](irqOff => pc \in IrqOffPcs)
    /\ [](irqOff => waits <= 17 /\ polls <= PollMax + 1)
    /\ irqOff ~> ~irqOff

\* C22 amended: interrupts are disabled only around the receive of one
\* byte, the disabled region holds at most 17 waits, each of at most
\* PollMax + 2 polls of the lines (202 in the code: PollMax + 1 loop tests
\* and the poll of the return statement), and it always ends, also when the
\* talker stops toggling CLOCK.
C22_IrqRegionBounded ==
    /\ [](irqOff => pc \in IrqOffPcs)
    /\ [](irqOff => waits <= 17 /\ polls <= PollMax + 2)
    /\ irqOff ~> ~irqOff

C22_Witness ==
    irqOff /\ pc = "r_bit" /\ waits = 17 /\ polls = PollMax + 2 /\ ok = 0

\* C23: cbm_reset releases DATA, ATN and CLOCK before it asserts RESET and
\* releases RESET before the first bus-free probe asserts ATN, so the
\* adapter never asserts RESET together with ATN, CLOCK or DATA; and when
\* cbm_reset returns it drives none of DATA, CLOCK, ATN and RESET.
C23_ResetAloneAndReleased ==
    /\ "RESET" \in hostDrv => (pc = "rst_hold" /\ hostDrv \cap BusLines = {})
    /\ pc \in {"wfb_loop", "cbf_1", "cbf_2", "cbf_3", "cbf_4", "wfb_chk"} =>
          /\ "RESET" \notin hostDrv
          /\ hostDrv \cap {"DATA", "CLK"} = {}
          /\ "ATN" \in hostDrv => pc = "cbf_3"
    /\ pc = "rst_ret" => hostDrv \cap AllLines = {}

C23_Witness ==
    /\ pc = "rst_ret" /\ drvAtCall = {"DATA"} /\ cancel /\ free = 0
    /\ attempts = 1 /\ Len(cbfSeen) = 3

\* Bytes between offset o and the 256-byte boundary.
BlockRest(o) == IF o <= 256 THEN 256 - o ELSE 0

\* C24: for a starting offset o, writeblock issues exactly 256 - o burst
\* writes, of p[0], p[1], ... in order, and readblock asks for exactly
\* 256 - o bytes, for every o in 0..256; for o > 256 neither transfers any
\* byte.
C24_BlocksStopAtBoundary ==
    /\ sPc = "wb_ret" =>
          /\ Len(written) = BlockRest(blkOff)
          /\ \A k \in 1..Len(written) : written[k] = k - 1
    /\ sPc = "rb_ret" =>
          IF handshaked
          THEN /\ Len(readIdx) = BlockRest(blkOff)
               /\ \A k \in 1..Len(readIdx) : readIdx[k] = k - 1
          ELSE rbReq = << 0, BlockRest(blkOff) >>


\* C25: once the host has requested an abort, a running iec_srq_read returns,
\* whatever the drive does with the strobe (SRQ) line.
C25_BurstReadReturnsOnAbort == (cancel /\ pc # "idle") ~> (pc = "q_ret")

\* A burst byte read that got all 8 strobe pulses and returned its byte.
C25_ReadCompletes == pc = "q_ret" /\ ret = 165

====
